---- MODULE Spec2Model ----
(***************************************************************************)
(* A model of src/transaction-utils.ts of ledger-obsidian: the balance     *)
(* resolver (getTotalAsNum, fillMissingAmount), the account value          *)
(* extractor (valueForAccount), the formatter (formatTransaction), the     *)
(* filter engine (filterTransactions and the filter constructors), the     *)
(* alias resolver (dealiasAccount) and the account hierarchy builder       *)
(* (makeAccountTree).                                                      *)
(*                                                                         *)
(* Representation.                                                         *)
(*  - A JavaScript string is a sequence of one-character strings, so that  *)
(*    indexOf, substring, split, startsWith and concatenation are          *)
(*    computed: "a:b" is <<"a", ":", "b">> and '' is <<>>.                 *)
(*  - An optional field (amount?, currency?, subRows?, parent?) is         *)
(*    Undefined or Some(v).                                                *)
(*  - Amounts are integers; JavaScript's doubles are exact on them, and    *)
(*    -0 is identified with 0 (they are === and both falsy).               *)
(*  - Arrays are 1-based sequences: index i of the source is i + 1 here,   *)
(*    and the source's missingIndex of -1 is NoIndex.                      *)
(***************************************************************************)
EXTENDS Integers, Sequences, FiniteSets, TLC

VARIABLES
  parsedTx,    \* the transaction as the parser produced it
  curTx,       \* the same transaction object, as it is now
  prevTx,      \* curTx as it was before the latest fillMissingAmount call
  calls,       \* number of fillMissingAmount calls made on curTx
  fillResult,  \* "none", or the Result of the latest call: "ok" | "err"
  out,         \* the latest read-only call made on curTx, with what it returned
  argAccount,  \* dealiasAccount's account argument
  argAliases,  \* dealiasAccount's aliases argument
  dealiased,   \* what dealiasAccount returned
  txList,      \* filterTransactions' txs argument
  filterList,  \* filterTransactions' filters argument
  filtered,    \* what filterTransactions returned
  tree,        \* the account tree (the top-level Node[])
  prevTree,    \* tree before the latest makeAccountTree call
  inserted,    \* the paths inserted so far, in order
  lastInsert   \* the latest call's path

txVars == <<parsedTx, curTx, prevTx, calls, fillResult, out>>
aliasVars == <<argAccount, argAliases, dealiased>>
filterVars == <<txList, filterList, filtered>>
treeVars == <<tree, prevTree, inserted, lastInsert>>
vars == <<txVars, aliasVars, filterVars, treeVars>>

----------------------------------------------------------------------------
(* Bounds of the model. *)

MaxLines == 3        \* expense lines of a transaction
MaxAmount == 1       \* parsed amounts are -MaxAmount..MaxAmount
MaxAccountLen == 3   \* characters of an account name given to dealiasAccount
MaxTxs == 3          \* transactions given to filterTransactions
MaxFilters == 2      \* filters given to filterTransactions
MaxPathLen == 3      \* characters of a path given to makeAccountTree
MaxInserts == 3      \* makeAccountTree calls on one tree

(* Optional values. *)
Undefined == <<>>
Some(v) == <<v>>
Get(o) == o[1]

(* Sum of f over a finite set of integers (indices). *)
RECURSIVE SumOver(_, _)
SumOver(S, f) ==
  IF S = {} THEN 0
  ELSE LET i == CHOOSE x \in S : TRUE IN f[i] + SumOver(S \ {i}, f)

----------------------------------------------------------------------------
(* The transaction data the parser hands over. *)

Accounts == {<<>>, <<"a">>, <<"b">>}
Amounts == {Undefined} \cup {Some(n) : n \in (0 - MaxAmount)..MaxAmount}

(* JavaScript truthiness of a number? : undefined and 0 are falsy. *)
TruthyAmount(amount) == amount # Undefined /\ Get(amount) # 0

(* JavaScript truthiness of a string: '' is falsy. *)
TruthyString(s) == s # <<>>

----------------------------------------------------------------------------
(* String primitives of JavaScript, on sequences of characters. *)

(* s.indexOf(ch): the 0-based position of the first ch, or -1. *)
IndexOf(s, ch) ==
  IF \E i \in 1..Len(s) : s[i] = ch
  THEN (CHOOSE i \in 1..Len(s) :
          s[i] = ch /\ \A j \in 1..(i - 1) : s[j] # ch) - 1
  ELSE -1

(* s.substring(start, end) and s.substring(start), 0-based, end excluded. *)
Substring(s, start, end) == SubSeq(s, start + 1, end)
SubstringFrom(s, start) == SubSeq(s, start + 1, Len(s))

(* s.startsWith(p) *)
StartsWith(s, p) == Len(p) <= Len(s) /\ SubSeq(s, 1, Len(p)) = p

(* array.includes(x) *)
Includes(array, x) == \E k \in 1..Len(array) : array[k] = x

(* A Map<string, string> is a function on its keys. *)
Has(map, key) == key \in DOMAIN map

----------------------------------------------------------------------------
(* Alias resolver. *)

(* dealiasAccount that looks the replaced name up in the table again. *)
dealiasAccountAgain(account, aliases) ==
  LET once(name) ==
        LET firstDelimeter == IndexOf(name, ":") IN
        IF firstDelimeter > 0
        THEN LET prefix == Substring(name, 0, firstDelimeter) IN
             IF Has(aliases, prefix)
             THEN aliases[prefix] \o SubstringFrom(name, firstDelimeter)
             ELSE name
        ELSE IF Has(aliases, name)
             THEN aliases[name]
             ELSE name
  IN once(once(account))

dealiasAccount(account, aliases) ==
  LET firstDelimeter == IndexOf(account, ":") IN
  IF firstDelimeter > 0
  THEN LET prefix == Substring(account, 0, firstDelimeter) IN
       IF Has(aliases, prefix)
       THEN aliases[prefix] \o SubstringFrom(account, firstDelimeter)
       ELSE account
  ELSE IF Has(aliases, account)
       THEN aliases[account]
       ELSE account

----------------------------------------------------------------------------
(* Balance resolver. *)

(* The alias table the parser applied when it filled in dealiasedAccount. *)
ParserAliases == [k \in {<<"a">>} |-> <<"c">>]

(* An expense line as the parser produces it: the currency symbol comes   *)
(* with the amount, and dealiasedAccount is the account after aliasing.   *)
ExpenseLine(account, amount) ==
  [account |-> account,
   dealiasedAccount |-> dealiasAccount(account, ParserAliases),
   amount |-> amount,
   currency |-> IF amount = Undefined THEN Undefined ELSE Some("$")]

(* A line without an account is a comment line and holds no amount. *)
ParsedLines ==
  {ExpenseLine(a, m) : a \in Accounts \ {<<>>}, m \in Amounts}
    \cup {ExpenseLine(<<>>, Undefined)}

ExpenseLines == UNION {[1..n -> ParsedLines] : n \in 1..MaxLines}

(* A date is its day number; a payee is only ever compared for equality. *)
Transaction(date, payee, lines) ==
  [value |-> [date |-> date, payee |-> payee, expenselines |-> lines]]

(* lines 40-57 *)
RECURSIVE SumTruthy(_, _, _)
SumTruthy(lines, i, sum) ==
  IF i > Len(lines) - 1 THEN sum
  ELSE SumTruthy(lines, i + 1,
                 IF TruthyAmount(lines[i].amount)
                 THEN sum + Get(lines[i].amount)
                 ELSE sum)

getTotalAsNum(tx) ==
  LET lines == tx.value.expenselines IN
  IF TruthyAmount(lines[Len(lines)].amount)
  THEN -1 * Get(lines[Len(lines)].amount)
  ELSE SumTruthy(lines, 1, 0)

(* lines 94-112: the scan, which ends early on a second missing amount. *)
NoIndex == 0

(* The scan without the comment-line case: every absent amount counts. *)
RECURSIVE ScanLinesCountingComments(_, _, _, _)
ScanLinesCountingComments(lines, i, commentLines, missingIndex) ==
  IF i > Len(lines)
  THEN [err |-> FALSE, commentLines |-> commentLines, missingIndex |-> missingIndex]
  ELSE IF lines[i].amount = Undefined
       THEN IF missingIndex # NoIndex
            THEN [err |-> TRUE, commentLines |-> commentLines,
                  missingIndex |-> missingIndex]
            ELSE ScanLinesCountingComments(lines, i + 1, commentLines, i)
       ELSE ScanLinesCountingComments(lines, i + 1, commentLines, missingIndex)

RECURSIVE ScanLines(_, _, _, _)
ScanLines(lines, i, commentLines, missingIndex) ==
  IF i > Len(lines)
  THEN [err |-> FALSE, commentLines |-> commentLines, missingIndex |-> missingIndex]
  ELSE IF lines[i].amount = Undefined
       THEN IF ~TruthyString(lines[i].account) \/ lines[i].account = <<>>
            THEN ScanLines(lines, i + 1, Append(commentLines, i), missingIndex)
            ELSE IF missingIndex # NoIndex
                 THEN [err |-> TRUE, commentLines |-> commentLines,
                       missingIndex |-> missingIndex]
                 ELSE ScanLines(lines, i + 1, commentLines, i)
       ELSE ScanLines(lines, i + 1, commentLines, missingIndex)

(* lines 124-130: lines.reduce(..., total) *)
RECURSIVE ReduceOthers(_, _, _, _, _)
ReduceOthers(lines, i, missingIndex, commentLines, prev) ==
  IF i > Len(lines) THEN prev
  ELSE ReduceOthers(lines, i + 1, missingIndex, commentLines,
                    IF i = missingIndex \/ i = Len(lines) \/ Includes(commentLines, i)
                    THEN prev
                    ELSE prev - Get(lines[i].amount))

(* lines 118-131: the amount written to lines[missingIndex]. *)
FilledAmount(tx, missingIndex, commentLines) ==
  LET lines == tx.value.expenselines
      total == getTotalAsNum(tx)
  IN IF missingIndex = Len(lines)
     THEN -1 * total
     ELSE ReduceOthers(lines, 1, missingIndex, commentLines, total)

(* fillMissingAmount writing the inferred amount to the last line instead *)
(* of lines[missingIndex].                                                *)
fillMissingAmountWritingLast(tx) ==
  LET lines == tx.value.expenselines
      scan == ScanLines(lines, 1, <<>>, NoIndex)
  IN IF scan.err THEN [result |-> "err", tx |-> tx]
     ELSE IF scan.missingIndex = NoIndex THEN [result |-> "ok", tx |-> tx]
     ELSE [result |-> "ok",
           tx |-> [tx EXCEPT !.value.expenselines[Len(lines)].amount =
                     Some(FilledAmount(tx, scan.missingIndex, scan.commentLines))]]

(* fillMissingAmount that also gives every comment line an amount of 0.   *)
fillMissingAmountZeroingComments(tx) ==
  LET lines == tx.value.expenselines
      scan == ScanLines(lines, 1, <<>>, NoIndex)
      zeroed == [i \in 1..Len(lines) |->
                   IF Includes(scan.commentLines, i)
                   THEN [lines[i] EXCEPT !.amount = Some(0)]
                   ELSE lines[i]]
  IN IF scan.err THEN [result |-> "err", tx |-> tx]
     ELSE IF scan.missingIndex = NoIndex
          THEN [result |-> "ok", tx |-> [tx EXCEPT !.value.expenselines = zeroed]]
     ELSE [result |-> "ok",
           tx |-> [tx EXCEPT !.value.expenselines =
                     [zeroed EXCEPT ![scan.missingIndex].amount =
                        Some(FilledAmount(tx, scan.missingIndex, scan.commentLines))]]]

(* fillMissingAmount(tx): the Result, and tx after the call. *)
fillMissingAmount(tx) ==
  LET lines == tx.value.expenselines
      scan == ScanLines(lines, 1, <<>>, NoIndex)
  IN IF scan.err THEN [result |-> "err", tx |-> tx]
     ELSE IF scan.missingIndex = NoIndex THEN [result |-> "ok", tx |-> tx]
     ELSE [result |-> "ok",
           tx |-> [tx EXCEPT !.value.expenselines[scan.missingIndex].amount =
                     Some(FilledAmount(tx, scan.missingIndex, scan.commentLines))]]

(* lines 136-149; what it returns is a number or undefined. *)
RECURSIVE ValueScan(_, _, _)
ValueScan(tx, account, i) ==
  LET lines == tx.value.expenselines IN
  IF i > Len(lines) THEN Some(0)
  ELSE LET line == lines[i] IN
       IF \/ (TruthyString(line.account) /\ line.account = account)
          \/ (TruthyString(line.dealiasedAccount) /\ line.dealiasedAccount = account)
       THEN IF i = Len(lines)
            THEN Some(-1 * getTotalAsNum(tx))
            ELSE line.amount
       ELSE ValueScan(tx, account, i + 1)

valueForAccount(tx, account) == ValueScan(tx, account, 1)

(* lines 11-26. amount.toFixed(2) of an undefined amount throws a TypeError. *)
ToFixed2(n) ==
  [negative |-> n < 0, whole |-> IF n < 0 THEN 0 - n ELSE n, fraction |-> <<0, 0>>]

FormatLine(lines, i, currencySymbol) ==
  IF i # Len(lines)
  THEN IF lines[i].amount = Undefined
       THEN [threw |-> TRUE]
       ELSE [threw |-> FALSE,
             text |-> <<"    ", lines[i].account, "    ", currencySymbol,
                        ToFixed2(Get(lines[i].amount))>>]
  ELSE [threw |-> FALSE, text |-> <<"    ", lines[i].account>>]

formatTransaction(tx, currencySymbol) ==
  LET lines == tx.value.expenselines
      mapped == [i \in 1..Len(lines) |-> FormatLine(lines, i, currencySymbol)]
  IN IF \E i \in 1..Len(lines) : mapped[i].threw
     THEN [threw |-> TRUE]
     ELSE [threw |-> FALSE,
           text |-> <<"\n", tx.value.date, " ", tx.value.payee, "\n",
                      [i \in 1..Len(lines) |-> mapped[i].text]>>]

----------------------------------------------------------------------------
(* Filter engine. A Filter is the closure a constructor returns: its kind  *)
(* and the value it closed over.                                           *)

filterByAccount(account) == [kind |-> "filterByAccount", arg |-> account]
filterByPayeeExact(account) == [kind |-> "filterByPayeeExact", arg |-> account]
filterByStartDate(start) == [kind |-> "filterByStartDate", arg |-> start]
filterByEndDate(end) == [kind |-> "filterByEndDate", arg |-> end]

(* fn(tx), lines 157-180 *)
Apply(fn, tx) ==
  CASE fn.kind = "filterByAccount" ->
         \E i \in 1..Len(tx.value.expenselines) :
           LET line == tx.value.expenselines[i] IN
           \/ (TruthyString(line.account) /\ StartsWith(line.account, fn.arg))
           \/ (TruthyString(line.dealiasedAccount)
                 /\ StartsWith(line.dealiasedAccount, fn.arg))
    [] fn.kind = "filterByPayeeExact" -> tx.value.payee = fn.arg
    [] fn.kind = "filterByStartDate" -> fn.arg <= tx.value.date
    [] fn.kind = "filterByEndDate" -> fn.arg >= tx.value.date

(* filterTransactions keeping the transactions that every filter matches. *)
filterTransactionsEvery(txs, filters) ==
  IF Len(filters) > 0
  THEN LET keep(tx) == \A k \in 1..Len(filters) : Apply(filters[k], tx)
       IN SelectSeq(txs, keep)
  ELSE txs

(* lines 186-190 *)
filterTransactions(txs, filters) ==
  IF Len(filters) > 0
  THEN LET keep(tx) == \E k \in 1..Len(filters) : Apply(filters[k], tx)
       IN SelectSeq(txs, keep)
  ELSE txs

----------------------------------------------------------------------------
(* Account hierarchy builder. A Node is [account, id, subRows], subRows    *)
(* Undefined until a child is inserted; makeAccountTree never sets         *)
(* expanded.                                                               *)

(* s.split(sep), for a one-character sep: at least one part. *)
RECURSIVE Split(_, _)
Split(s, sep) ==
  LET at == IndexOf(s, sep) IN
  IF at = -1 THEN <<s>>
  ELSE <<Substring(s, 0, at)>> \o Split(SubstringFrom(s, at + 1), sep)

(* parts.join(sep) *)
RECURSIVE Join(_, _)
Join(parts, sep) ==
  IF Len(parts) = 0 THEN <<>>
  ELSE IF Len(parts) = 1 THEN parts[1]
  ELSE parts[1] \o <<sep>> \o Join(Tail(parts), sep)

(* nodes.find(val => val.account === account), as a position; 0 if none. *)
FindIndex(nodes, account) ==
  IF \E i \in 1..Len(nodes) : nodes[i].account = account
  THEN CHOOSE i \in 1..Len(nodes) :
         nodes[i].account = account /\ \A j \in 1..(i - 1) : nodes[j].account # account
  ELSE 0

(* parent ? ... : ..., on an optional string: undefined and '' are falsy. *)
TruthyParent(parent) == parent # Undefined /\ TruthyString(Get(parent))

(* makeAccountTree(nodes, newValue, parent): nodes after the call. *)
RECURSIVE makeAccountTree(_, _, _)
makeAccountTree(nodes, newValue, parent) ==
  LET parts == Split(newValue, ":")
      fullName == IF TruthyParent(parent)
                  THEN Get(parent) \o <<":">> \o parts[1]
                  ELSE parts[1]
      found == FindIndex(nodes, parts[1])
      pushed == IF found = 0
                THEN Append(nodes, [account |-> parts[1], id |-> fullName,
                                    subRows |-> Undefined])
                ELSE nodes
      dest == IF found = 0 THEN Len(pushed) ELSE found
  IN IF Len(parts) > 1
     THEN LET subRows == IF pushed[dest].subRows = Undefined
                         THEN <<>>
                         ELSE Get(pushed[dest].subRows)
              newParent == IF TruthyParent(parent)
                           THEN Get(parent) \o <<":">> \o parts[1]
                           ELSE parts[1]
          IN [pushed EXCEPT ![dest].subRows =
                Some(makeAccountTree(subRows, Join(Tail(parts), ":"), Some(newParent)))]
     ELSE pushed

----------------------------------------------------------------------------
(* The balance resolver's callers: a parsed transaction is resolved by     *)
(* fillMissingAmount (possibly more than once), and read by getTotalAsNum, *)
(* formatTransaction and valueForAccount.                                  *)

QueriedAccounts == Accounts \cup {<<"c">>}
NoCall == [op |-> "none"]

IdleAlias == argAccount = <<>> /\ argAliases = <<>> /\ dealiased = Undefined
IdleFilter == txList = <<>> /\ filterList = <<>> /\ filtered = Undefined
IdleTree == tree = <<>> /\ prevTree = <<>> /\ inserted = <<>> /\ lastInsert = Undefined
IdleTx ==
  parsedTx = <<>> /\ curTx = <<>> /\ prevTx = <<>> /\ calls = 0 /\ fillResult = "none" /\ out = NoCall

InitTx ==
  /\ parsedTx \in {Transaction(1, "payee", lines) : lines \in ExpenseLines}
  /\ curTx = parsedTx
  /\ prevTx = parsedTx
  /\ calls = 0
  /\ fillResult = "none"
  /\ out = NoCall
  /\ IdleAlias /\ IdleFilter /\ IdleTree

FillMissingAmount ==
  /\ out = NoCall
  /\ calls < 2
  /\ fillResult # "err"
  /\ LET r == fillMissingAmount(curTx) IN
       /\ prevTx' = curTx
       /\ curTx' = r.tx
       /\ fillResult' = r.result
  /\ calls' = calls + 1
  /\ UNCHANGED <<parsedTx, out, aliasVars, filterVars, treeVars>>

GetTotalAsNum ==
  /\ out = NoCall
  /\ calls = 0
  /\ out' = [op |-> "getTotalAsNum", result |-> getTotalAsNum(curTx)]
  /\ UNCHANGED <<parsedTx, curTx, prevTx, calls, fillResult, aliasVars, filterVars, treeVars>>

FormatTransaction ==
  /\ out = NoCall
  /\ calls = 0
  /\ out' = [op |-> "formatTransaction", result |-> formatTransaction(curTx, <<"$">>)]
  /\ UNCHANGED <<parsedTx, curTx, prevTx, calls, fillResult, aliasVars, filterVars, treeVars>>

(* valueForAccount for every account a caller may ask about, on a          *)
(* transaction that fillMissingAmount has accepted.                        *)
ValueForAccount ==
  /\ out = NoCall
  /\ calls = 1
  /\ fillResult = "ok"
  /\ out' = [op |-> "valueForAccount",
             result |-> [a \in QueriedAccounts |-> valueForAccount(curTx, a)]]
  /\ UNCHANGED <<parsedTx, curTx, prevTx, calls, fillResult, aliasVars, filterVars, treeVars>>

NextTx == FillMissingAmount \/ GetTotalAsNum \/ FormatTransaction \/ ValueForAccount

SpecTx == InitTx /\ [][NextTx]_vars

----------------------------------------------------------------------------
(* Properties of the balance resolver, checked under SpecTx. *)

(* A comment line: no account and no amount. *)
IsCommentLine(line) == line.amount = Undefined /\ line.account = <<>>

(* The non-comment lines of tx whose amount is absent. *)
MissingLines(tx) ==
  {i \in 1..Len(tx.value.expenselines) :
     /\ tx.value.expenselines[i].amount = Undefined
     /\ ~IsCommentLine(tx.value.expenselines[i])}

CommentLines(tx) ==
  {i \in 1..Len(tx.value.expenselines) : IsCommentLine(tx.value.expenselines[i])}

(* C1: fillMissingAmount returns success when at most one non-comment line *)
(* has an absent amount and the error when two or more have; comment lines *)
(* never count.                                                            *)
C1_FillResult ==
  calls >= 1 =>
    /\ Cardinality(MissingLines(prevTx)) <= 1 => fillResult = "ok"
    /\ Cardinality(MissingLines(prevTx)) >= 2 => fillResult = "err"

(* Two lines without an amount beside a comment line were refused. *)
C1_Witness ==
  /\ calls = 1
  /\ fillResult = "err"
  /\ Cardinality(MissingLines(prevTx)) = 2
  /\ CommentLines(prevTx) # {}

(* C10: a call changes the amount of at most one line, the one non-comment *)
(* line whose amount was absent, and nothing else; a call that returns the *)
(* error changes nothing.                                                  *)
C10_Frame ==
  calls >= 1 =>
    LET old == prevTx.value.expenselines
        new == curTx.value.expenselines
        changed == {i \in 1..Len(old) : new[i] # old[i]}
    IN /\ curTx.value.date = prevTx.value.date
       /\ curTx.value.payee = prevTx.value.payee
       /\ Len(new) = Len(old)
       /\ \A i \in 1..Len(old) :
            /\ new[i].account = old[i].account
            /\ new[i].dealiasedAccount = old[i].dealiasedAccount
            /\ new[i].currency = old[i].currency
       /\ Cardinality(changed) <= 1
       /\ changed \subseteq MissingLines(prevTx)
       /\ changed # {} => MissingLines(prevTx) = changed
       /\ fillResult = "err" => curTx = prevTx

(* A call filled in a line of a transaction that also has a comment line. *)
C10_Witness ==
  /\ calls = 1
  /\ fillResult = "ok"
  /\ curTx # prevTx
  /\ CommentLines(prevTx) # {}

(* C7: a second call on a transaction the first call accepted returns      *)
(* success and changes nothing.                                            *)
C7_SecondCallNoOp ==
  calls = 2 => fillResult = "ok" /\ curTx = prevTx

(* The second call came after a first call that filled in an amount. *)
C7_Witness ==
  /\ calls = 2
  /\ MissingLines(parsedTx) # {}
  /\ prevTx # parsedTx

(* The two ways of computing the total of tx, where every amount that    *)
(* enters them is known.                                                 *)
SumOfNonLast(tx) ==
  LET lines == tx.value.expenselines IN
  SumOver({i \in 1..(Len(lines) - 1) : lines[i].amount # Undefined},
          [i \in 1..Len(lines) |->
             IF lines[i].amount = Undefined THEN 0 ELSE Get(lines[i].amount)])

NegatedLast(tx) ==
  -1 * Get(tx.value.expenselines[Len(tx.value.expenselines)].amount)

LastAmountKnown(tx) ==
  tx.value.expenselines[Len(tx.value.expenselines)].amount # Undefined

(* C2: where exactly one non-comment line lacked an amount, after the call *)
(* the sum of the amounts of all lines but the last equals the negation of *)
(* the last line's amount. Stated for the transactions whose last line is  *)
(* not a comment line, where the negation of its amount is defined.        *)
C2_TotalsAgree ==
  (/\ calls = 1
   /\ fillResult = "ok"
   /\ Cardinality(MissingLines(parsedTx)) = 1
   /\ LastAmountKnown(curTx))
  => SumOfNonLast(curTx) = NegatedLast(curTx)

(* C4: getTotalAsNum returns the negation of the last line's amount when   *)
(* that amount is known, 0 included, and the sum of the known amounts of   *)
(* the other lines only when it is absent.                                 *)
C4_TotalOfKnownLast ==
  out.op = "getTotalAsNum" =>
    IF LastAmountKnown(curTx)
    THEN out.result = NegatedLast(curTx)
    ELSE out.result = SumOfNonLast(curTx)

(* A transaction every line of which names an account and has an amount,  *)
(* the amounts adding up to 0.                                            *)
Balanced(tx) ==
  LET lines == tx.value.expenselines IN
  /\ \A i \in 1..Len(lines) : lines[i].account # <<>> /\ lines[i].amount # Undefined
  /\ SumOver(1..Len(lines), [i \in 1..Len(lines) |-> Get(lines[i].amount)]) = 0

AccountsOf(tx) ==
  {tx.value.expenselines[i].account : i \in 1..Len(tx.value.expenselines)}

(* A numbering of a finite set, to sum a function over it. *)
SumOfValues(values, S) ==
  LET order == CHOOSE f \in [1..Cardinality(S) -> S] :
                 \A a \in S : \E k \in 1..Cardinality(S) : f[k] = a
  IN SumOver(1..Cardinality(S), [k \in 1..Cardinality(S) |-> Get(values[order[k]])])

(* C3: for a resolved transaction, valueForAccount summed over the         *)
(* distinct accounts of its lines is 0, also when an account is on more    *)
(* than one line. Stated for the balanced transactions that                *)
(* fillMissingAmount accepted.                                             *)
C3_ValuesSumToZero ==
  (out.op = "valueForAccount" /\ Balanced(curTx))
  => SumOfValues(out.result, AccountsOf(curTx)) = 0

(* C9: formatTransaction returns a string, and raises nothing, for every   *)
(* transaction with at most one non-comment line lacking an amount.        *)
C9_FormatIsTotal ==
  (out.op = "formatTransaction" /\ Cardinality(MissingLines(curTx)) <= 1)
  => ~out.result.threw

----------------------------------------------------------------------------
(* The alias resolver's caller: one call on an account name and a table. *)

Chars == {"a", "b", ":"}
StringsUpTo(n) == UNION {[1..k -> Chars] : k \in 0..n}

AliasKeys == {<<>>, <<"a">>, <<"b">>, <<":", "a">>}
AliasValues == {<<"b">>, <<"a", ":", "b">>}
AliasTables == UNION {[keys -> AliasValues] : keys \in SUBSET AliasKeys}

InitAlias ==
  /\ argAccount \in StringsUpTo(MaxAccountLen)
  /\ argAliases \in AliasTables
  /\ dealiased = Undefined
  /\ IdleTx /\ IdleFilter /\ IdleTree

DealiasAccount ==
  /\ dealiased = Undefined
  /\ dealiased' = Some(dealiasAccount(argAccount, argAliases))
  /\ UNCHANGED <<argAccount, argAliases, txVars, filterVars, treeVars>>

NextAlias == DealiasAccount

SpecAlias == InitAlias /\ [][NextAlias]_vars

(* The places a name can be cut at its first colon: none or one. *)
FirstColon(name) ==
  {k \in 1..Len(name) : name[k] = ":" /\ \A j \in 1..(k - 1) : name[j] # ":"}

(* C8 as stated: a name with a colon whose text before the first colon is  *)
(* a key becomes the key's value followed by the rest of the name from     *)
(* that colon on; a name without a colon that is a key becomes the key's   *)
(* value; every other name is returned unchanged.                          *)
C8_AsStated ==
  dealiased # Undefined =>
    LET name == argAccount
        keys == DOMAIN argAliases
    IN IF \E k \in FirstColon(name) : SubSeq(name, 1, k - 1) \in keys
       THEN \A k \in FirstColon(name) :
              Get(dealiased) =
                argAliases[SubSeq(name, 1, k - 1)] \o SubSeq(name, k, Len(name))
       ELSE IF FirstColon(name) = {} /\ name \in keys
            THEN Get(dealiased) = argAliases[name]
            ELSE Get(dealiased) = name

(* C8 amended: the prefix rule applies when the first colon comes after at *)
(* least one character; a name with no colon, or one that starts with a    *)
(* colon, is looked up whole; every other name is returned unchanged. The  *)
(* value put in is not looked up again.                                    *)
C8_Amended ==
  dealiased # Undefined =>
    LET name == argAccount
        keys == DOMAIN argAliases
        cut == {k \in FirstColon(name) : k > 1}
    IN IF \E k \in cut : SubSeq(name, 1, k - 1) \in keys
       THEN \A k \in cut :
              Get(dealiased) =
                argAliases[SubSeq(name, 1, k - 1)] \o SubSeq(name, k, Len(name))
       ELSE IF cut = {} /\ name \in keys
            THEN Get(dealiased) = argAliases[name]
            ELSE Get(dealiased) = name

(* A prefix was replaced by a value whose own top-level segment is a key. *)
C8_Witness ==
  /\ dealiased # Undefined
  /\ \E k \in FirstColon(argAccount) :
       /\ k > 1
       /\ SubSeq(argAccount, 1, k - 1) \in DOMAIN argAliases
       /\ argAliases[SubSeq(argAccount, 1, k - 1)] \in DOMAIN argAliases
       /\ argAliases[argAliases[SubSeq(argAccount, 1, k - 1)]]
            # argAliases[SubSeq(argAccount, 1, k - 1)]

----------------------------------------------------------------------------
(* The filter engine's caller: one call on a list of transactions and a   *)
(* list of filters.                                                       *)

TxPool ==
  {Transaction(1, "p", <<ExpenseLine(<<"a", ":", "b">>, Some(1)),
                         ExpenseLine(<<"b">>, Some(-1))>>),
   Transaction(2, "q", <<ExpenseLine(<<"b">>, Some(1)),
                         ExpenseLine(<<>>, Undefined),
                         ExpenseLine(<<"a">>, Undefined)>>),
   Transaction(2, "p", <<ExpenseLine(<<"b">>, Some(0)),
                         ExpenseLine(<<"b", ":", "a">>, Undefined)>>),
   Transaction(3, "q", <<ExpenseLine(<<"b", ":", "a">>, Some(1))>>)}

FilterPool ==
  {filterByAccount(<<"a">>), filterByAccount(<<"c">>), filterByPayeeExact("q"),
   filterByStartDate(3), filterByEndDate(1)}

SeqsUpTo(S, n) == UNION {[1..k -> S] : k \in 0..n}

InitFilter ==
  /\ txList \in SeqsUpTo(TxPool, MaxTxs)
  /\ filterList \in SeqsUpTo(FilterPool, MaxFilters)
  /\ filtered = Undefined
  /\ IdleTx /\ IdleAlias /\ IdleTree

FilterTransactions ==
  /\ filtered = Undefined
  /\ filtered' = Some(filterTransactions(txList, filterList))
  /\ UNCHANGED <<txList, filterList, txVars, aliasVars, treeVars>>

NextFilter == FilterTransactions

SpecFilter == InitFilter /\ [][NextFilter]_vars

(* The positions of txList that at least one filter of filterList matches. *)
MatchedPositions ==
  {i \in 1..Len(txList) : \E k \in 1..Len(filterList) : Apply(filterList[k], txList[i])}

(* C5: with no filters the list comes back unchanged; with filters the     *)
(* result holds exactly the transactions that at least one filter matches, *)
(* each once for each place it has in the list, in their original order,   *)
(* and nothing else.                                                       *)
C5_UnionInOrder ==
  filtered # Undefined =>
    LET result == Get(filtered) IN
    IF Len(filterList) = 0
    THEN result = txList
    ELSE /\ Len(result) = Cardinality(MatchedPositions)
         /\ \A i \in MatchedPositions :
              result[Cardinality({j \in MatchedPositions : j <= i})] = txList[i]

(* Two filters, of which each matches a transaction the other does not,   *)
(* and a transaction that neither matches.                                *)
C5_Witness ==
  /\ filtered # Undefined
  /\ Len(filterList) = 2
  /\ \E i, j, k \in 1..Len(txList) :
       /\ Apply(filterList[1], txList[i]) /\ ~Apply(filterList[2], txList[i])
       /\ Apply(filterList[2], txList[j]) /\ ~Apply(filterList[1], txList[j])
       /\ k \notin MatchedPositions

----------------------------------------------------------------------------
(* The hierarchy builder's caller: a tree that starts empty and grows by   *)
(* makeAccountTree(tree, path) calls.                                      *)

TreePaths == StringsUpTo(MaxPathLen)

InitTree ==
  /\ tree = <<>>
  /\ prevTree = <<>>
  /\ inserted = <<>>
  /\ lastInsert = Undefined
  /\ IdleTx /\ IdleAlias /\ IdleFilter

MakeAccountTree ==
  /\ Len(inserted) < MaxInserts
  /\ \E path \in TreePaths :
       /\ tree' = makeAccountTree(tree, path, Undefined)
       /\ prevTree' = tree
       /\ inserted' = Append(inserted, path)
       /\ lastInsert' = Some(path)
  /\ UNCHANGED <<txVars, aliasVars, filterVars>>

NextTree == MakeAccountTree

SpecTree == InitTree /\ [][NextTree]_vars

(* No two nodes of one level have the same account. *)
RECURSIVE UniqueSiblings(_)
UniqueSiblings(level) ==
  /\ \A i, j \in 1..Len(level) : level[i].account = level[j].account => i = j
  /\ \A i \in 1..Len(level) :
       level[i].subRows # Undefined => UniqueSiblings(Get(level[i].subRows))

(* Every node's id is the segments from the root down to it, joined by    *)
(* colons; above is the sequence of segments above this level.            *)
RECURSIVE IdsArePaths(_, _)
IdsArePaths(level, above) ==
  \A i \in 1..Len(level) :
    /\ level[i].id = Join(Append(above, level[i].account), ":")
    /\ level[i].subRows # Undefined =>
         IdsArePaths(Get(level[i].subRows), Append(above, level[i].account))

(* C6: after any sequence of insertions into an empty tree no two siblings *)
(* share an account, every node's id is the colon-joined path from the     *)
(* root to it, and inserting a path that was inserted before leaves the    *)
(* tree unchanged.                                                         *)
C6_TreeWellFormed ==
  /\ UniqueSiblings(tree)
  /\ IdsArePaths(tree, <<>>)
  /\ (/\ lastInsert # Undefined
      /\ \E k \in 1..(Len(inserted) - 1) : inserted[k] = Get(lastInsert))
       => tree = prevTree

====
